---- MODULE Spec2Model ----
(***************************************************************************)
(* Payment lifecycle of SvelteReader:                                      *)
(*   - CashuPaymentMiddleware (agent-examples/socratic/middleware/         *)
(*     payment.py): per-tool-call metering of one session record;          *)
(*   - the reader agent graph (agent/src/agent/graph.py) and the web agent *)
(*     graph (agent/src/web_agent/graph.py): validate-then-redeem runs.    *)
(*   - direct calls of the token validators (validate_token_sync,          *)
(*     validate_token_format, validate_token_state);                       *)
(*   - concurrent requests to the wallet service (backend/src/services/    *)
(*     wallet.py behind payments/src/routers/wallet.py).                   *)
(* Strings the code parses (tokens) are sequences of one-character         *)
(* strings, so that prefix tests, split("_"), int() and base64 length      *)
(* arithmetic are computed the way the code computes them.  None and the   *)
(* empty string are both the empty sequence (both are falsy in the code).  *)
(***************************************************************************)
EXTENDS Integers, Sequences, FiniteSets, TLC

\* ------------------------------------------------------------------------
\* Bounds of the model
\* ------------------------------------------------------------------------
\* tool calls (billable or internal) made in one middleware session
MaxToolCalls == 4
\* agent_node / researcher_node executions in one graph run
MaxAgentSteps == 3
\* after_agent runs in one middleware session
MaxFinalizations == 2
\* calls of each validator on one token
MaxValidations == 2
\* concurrent requests to the wallet service
MaxRequests == 2

\* ------------------------------------------------------------------------
\* Program constants
\* ------------------------------------------------------------------------
COST_PER_ITERATION_SATS == 10
MAX_TOOL_CALLS == 10
MAX_RESEARCH_ITERATIONS == 3

\* ------------------------------------------------------------------------
\* Strings
\* ------------------------------------------------------------------------
None == <<>>

Truthy(s) == Len(s) > 0

StartsWith(s, p) == Len(s) >= Len(p) /\ SubSeq(s, 1, Len(p)) = p

Digit == [c \in {"0", "1", "2", "3", "4", "5", "6", "7", "8", "9"} |->
            CASE c = "0" -> 0 [] c = "1" -> 1 [] c = "2" -> 2 [] c = "3" -> 3
              [] c = "4" -> 4 [] c = "5" -> 5 [] c = "6" -> 6 [] c = "7" -> 7
              [] c = "8" -> 8 [] c = "9" -> 9]

DigitChar == <<"0", "1", "2", "3", "4", "5", "6", "7", "8", "9">>

\* token.split("_")[-1]: what follows the last underscore (all of it when
\* there is none)
RECURSIVE LastSegment(_)
LastSegment(s) ==
    IF \A i \in 1..Len(s) : s[i] # "_" THEN s
    ELSE LET i == CHOOSE k \in 1..Len(s) : s[k] = "_" IN
         LastSegment(SubSeq(s, i + 1, Len(s)))

RECURSIVE DigitsValue(_)
DigitsValue(s) ==
    IF Len(s) = 0 THEN 0
    ELSE 10 * DigitsValue(SubSeq(s, 1, Len(s) - 1)) + Digit[s[Len(s)]]

AllDigits(s) == Len(s) > 0 /\ \A i \in 1..Len(s) : s[i] \in DOMAIN Digit

\* Python int(str) on the characters tokens are made of here: an optional
\* sign followed by at least one decimal digit; anything else is ValueError.
ParseInt(s) ==
    IF AllDigits(s) THEN [ok |-> TRUE, value |-> DigitsValue(s)]
    ELSE IF Len(s) > 1 /\ s[1] = "-" /\ AllDigits(Tail(s))
         THEN [ok |-> TRUE, value |-> 0 - DigitsValue(Tail(s))]
    ELSE IF Len(s) > 1 /\ s[1] = "+" /\ AllDigits(Tail(s))
         THEN [ok |-> TRUE, value |-> DigitsValue(Tail(s))]
    ELSE [ok |-> FALSE, value |-> 0]

\* str(n) for an integer
RECURSIVE NatStr(_)
NatStr(n) ==
    IF n < 10 THEN <<DigitChar[n + 1]>>
    ELSE NatStr(n \div 10) \o <<DigitChar[(n % 10) + 1]>>

IntStr(n) == IF n < 0 THEN <<"-">> \o NatStr(0 - n) ELSE NatStr(n)

\* ------------------------------------------------------------------------
\* Tokens
\* ------------------------------------------------------------------------
s_debug == <<"d", "e", "b", "u", "g">>
s_cashu_debug_ == <<"c", "a", "s", "h", "u", "_", "d", "e", "b", "u", "g", "_">>
s_cashu_refund_ == <<"c", "a", "s", "h", "u", "_", "r", "e", "f", "u", "n", "d", "_">>
s_cashuA == <<"c", "a", "s", "h", "u", "A">>
s_cashuB == <<"c", "a", "s", "h", "u", "B">>

\* "debug", "cashu_debug_15", "cashu_debug_10", "cashu_debug_-5", "cashu_debug_"
\* and "cashu_debug_5"
TokDebug == s_debug
TokDebug15 == s_cashu_debug_ \o <<"1", "5">>
TokDebug10 == s_cashu_debug_ \o <<"1", "0">>
TokDebugNeg5 == s_cashu_debug_ \o <<"-", "5">>
TokDebugBare == s_cashu_debug_
TokDebug5 == s_cashu_debug_ \o <<"5">>
\* "notcashu123"
TokMalformed == <<"n", "o", "t", "c", "a", "s", "h", "u", "1", "2", "3">>
\* "cashuAeyJ0b2tlbiI6W3sicA": a serialized token of the mint, proofs 16 + 4
TokReal20 == s_cashuA \o <<"e", "y", "J", "0", "b", "2", "t", "l", "b", "i",
                           "I", "6", "W", "3", "s", "i", "c", "A">>
\* "cashuBo2F0gaJhaUgA_9SL": a serialized token of the mint, proofs 8 + 2
TokReal10 == s_cashuB \o <<"o", "2", "F", "0", "g", "a", "J", "h", "a", "U",
                           "g", "A", "_", "9", "S", "L">>
\* "cashuAabc": right prefix, payload too short to be a token
TokShort == s_cashuA \o <<"a", "b", "c">>
\* "cashuAeyJ0b2tlbiI6W": right prefix, 13 payload characters, which no
\* padding makes base64
TokUndecodable == s_cashuA \o <<"e", "y", "J", "0", "b", "2", "t", "l", "b",
                                "i", "I", "6", "W">>
\* "cashu_debug_a_7"
TokDebugA7 == s_cashu_debug_ \o <<"a", "_", "7">>

\* cashu.wallet.helpers.deserialize_token / cashu.core.helpers.sum_proofs:
\* the proofs of the tokens the mint serialized; every other string raises.
Proofs(token) ==
    IF token = TokReal20 THEN <<16, 4>>
    ELSE IF token = TokReal10 THEN <<8, 2>>
    ELSE <<>>

deserialize_token_ok(token) == token \in {TokReal20, TokReal10}

RECURSIVE sum_proofs(_)
sum_proofs(proofs) ==
    IF Len(proofs) = 0 THEN 0 ELSE Head(proofs) + sum_proofs(Tail(proofs))

\* ------------------------------------------------------------------------
\* CashuPaymentMiddleware: token operations
\* ------------------------------------------------------------------------
\* validate_token_sync giving a debug token without integer the amount 0
validate_token_sync_default_zero(token, dev) ==
    IF ~Truthy(token) THEN
        [is_valid |-> FALSE, amount |-> 0, error |-> "No token provided"]
    ELSE IF StartsWith(token, s_cashu_debug_) \/ token = s_debug THEN
        LET p == ParseInt(LastSegment(token)) IN
        [is_valid |-> TRUE,
         amount |-> IF p.ok THEN p.value ELSE 0,
         error |-> "None"]
    ELSE IF dev THEN
        [is_valid |-> TRUE,
         amount |-> IF deserialize_token_ok(token)
                    THEN sum_proofs(Proofs(token)) ELSE 100,
         error |-> "None"]
    ELSE IF deserialize_token_ok(token) THEN
        [is_valid |-> TRUE, amount |-> sum_proofs(Proofs(token)), error |-> "None"]
    ELSE
        [is_valid |-> FALSE, amount |-> 0, error |-> "deserialize_token raised"]

\* validate_token_sync(token) under the module flag DEV_MODE (dev)
validate_token_sync(token, dev) ==
    IF ~Truthy(token) THEN
        [is_valid |-> FALSE, amount |-> 0, error |-> "No token provided"]
    ELSE IF StartsWith(token, s_cashu_debug_) \/ token = s_debug THEN
        LET p == ParseInt(LastSegment(token)) IN
        [is_valid |-> TRUE,
         amount |-> IF p.ok THEN p.value ELSE 100,
         error |-> "None"]
    ELSE IF dev THEN
        [is_valid |-> TRUE,
         amount |-> IF deserialize_token_ok(token)
                    THEN sum_proofs(Proofs(token)) ELSE 100,
         error |-> "None"]
    ELSE IF deserialize_token_ok(token) THEN
        [is_valid |-> TRUE, amount |-> sum_proofs(Proofs(token)), error |-> "None"]
    ELSE
        [is_valid |-> FALSE, amount |-> 0, error |-> "deserialize_token raised"]

\* generate_refund_token_sync(original_token, amount): both branches of the
\* DEV_MODE test build the same string
generate_refund_token_sync(original_token, amount) ==
    IF amount <= 0 THEN None ELSE s_cashu_refund_ \o IntStr(amount)

\* ------------------------------------------------------------------------
\* CashuPaymentMiddleware: state
\* ------------------------------------------------------------------------
VARIABLES
    DEV_MODE,            \* module flag, read once from the environment
    cost_per_iteration,  \* self.cost_per_iteration
    state,               \* request.runtime.state: the session payment record
    mw_pc,               \* "idle", or "interrupt" while awrap_tool_call is
                         \* suspended in interrupt()
    frame,               \* locals of the suspended awrap_tool_call
    interrupt_data,      \* value handed to interrupt()
    tool_calls,          \* number of awrap_tool_call invocations so far
    handler_runs,        \* number of times handler(request) ran a billable tool
    deductions,          \* number of times the deduction at l.446-451 ran
    accepted_total,      \* sum of the amounts validate_token_sync returned
                         \* for the tokens the session accepted
    first_validation,    \* outcome of the validation at the first billable
                         \* call: "none" (not run), "accepted" or "failed"
    last_call,           \* what the latest awrap_tool_call did
    start_token,         \* payment_token of the input the session started with
    topups,              \* number of resumes that brought an accepted token
    last_resume,         \* what the latest resume of the funding interrupt
                         \* brought: "none", "accepted" or "declined"
    finalizations        \* number of after_agent runs so far

mwVars == <<DEV_MODE, cost_per_iteration, state, mw_pc, frame, interrupt_data,
            tool_calls, handler_runs, deductions, accepted_total,
            first_validation, last_call, start_token, topups, last_resume,
            finalizations>>

\* ------------------------------------------------------------------------
\* Reader and web agent graphs: state
\* ------------------------------------------------------------------------
VARIABLES
    graph,              \* which compiled graph runs: "reader" or "web"
    payment,            \* input: PaymentInfo (its ecash_token; None when absent)
    messages,           \* channel messages: records [type, tool_calls, content]
    payment_validated,  \* channel payment_validated
    payment_token,      \* channel payment_token
    refund,             \* channel refund
    classification,     \* web: "unset", "skip_search" or "search"
    tool_call_count,    \* web channel tool_call_count
    research_iteration, \* web channel research_iteration
    node,               \* the node to run next; "END" when the run is over
    paused,             \* reader: stopped by interrupt_before=["tools"]
    executed,           \* names of the nodes that have run
    llm_calls,          \* number of model.ainvoke calls made
    llm_raised,         \* names of the work nodes whose LLM call raised
    redeem_calls,       \* tokens passed to redeem_token_to_wallet, in order
    redeemed,           \* results redeem_token_to_wallet returned, in order
    wallet_answers,     \* what the wallet answered to each of these calls
    tools_runs,         \* number of executions of the tools node
    operator_log        \* what the nodes printed about tokens: <<banner, token>>

gVars == <<graph, payment, messages, payment_validated, payment_token, refund,
           classification, tool_call_count, research_iteration, node, paused,
           executed, llm_calls, llm_raised, redeem_calls, redeemed,
           wallet_answers, tools_runs, operator_log>>

\* ------------------------------------------------------------------------
\* Direct calls of the token validators: state
\* ------------------------------------------------------------------------
VARIABLES
    v_token,    \* the token string the validators are called with
    v_sync,     \* results of the validate_token_sync(v_token) calls, in order
    v_format,   \* results of the validate_token_format(v_token) calls
    v_state,    \* results of the validate_token_state(v_token) calls
    v_wallet_requests   \* tokens the validators sent to the wallet service

vVars == <<v_token, v_sync, v_format, v_state, v_wallet_requests>>

\* ------------------------------------------------------------------------
\* Wallet service: state
\* ------------------------------------------------------------------------
VARIABLES
    w_held,        \* ids of the proofs in the wallet database
    w_reserved,    \* ids of the proofs the database marks reserved
    w_mint_spent,  \* incoming tokens the mint has already swapped
    w_req          \* the requests in flight: endpoint, position, locals and
                   \* response of each

wVars == <<w_held, w_reserved, w_mint_spent, w_req>>

vars == <<mwVars, gVars, vVars, wVars>>

\* tokens a client may present at session start
SessionTokens == {None, TokDebug, TokDebug15, TokDebug10, TokDebugNeg5,
                  TokDebugBare, TokMalformed, TokReal20, TokReal10}

\* payment_balance_sats the client may put in the input ("pre-validated by
\* frontend"); absent is the .get default 0
InputBalances == {0, 100}

\* payment_status the client may put in the input; absent is the .get
\* default "pending"
InputStatuses == {"pending", "active"}

\* values a client may resume the funding interrupt with: a non-dict, a dict
\* without payment_token, a dict with a payment_token
ResumeValues ==
    {[is_dict |-> FALSE, payment_token |-> None],
     [is_dict |-> TRUE, payment_token |-> None]}
    \cup {[is_dict |-> TRUE, payment_token |-> t] :
            t \in {TokDebug10, TokDebug15, TokDebug5, TokDebugNeg5,
                   TokMalformed}}

NoFrame == [token |-> None, balance |-> 0, spent |-> 0, status |-> "none"]

NoInterrupt == [type |-> "none", spent_sats |-> 0, message |-> "none",
                action_name |-> "none",
                action_args |-> [reason |-> "none", spent_so_far |-> 0],
                allowed_decisions |-> {}]

NoCall == [kind |-> "none", status_at_check |-> "none", balance_at_check |-> 0,
           interrupted |-> FALSE, deducted |-> FALSE, ran |-> FALSE,
           validation_failed |-> FALSE]

\* CashuPaymentState as the agent receives it: the fields of the input, the
\* others absent (the .get defaults)
InitMw ==
    /\ DEV_MODE \in BOOLEAN
    /\ cost_per_iteration = COST_PER_ITERATION_SATS
    /\ \E t \in SessionTokens, b \in InputBalances, st \in InputStatuses :
         state = [payment_token |-> t,
                  payment_balance_sats |-> b,
                  payment_spent_sats |-> 0,
                  payment_status |-> st,
                  payment_refund_token |-> None,
                  payment_refund_claimed |-> FALSE]
    /\ mw_pc = "idle"
    /\ frame = NoFrame
    /\ interrupt_data = NoInterrupt
    /\ tool_calls = 0
    /\ handler_runs = 0
    /\ deductions = 0
    /\ accepted_total = 0
    /\ first_validation = "none"
    /\ last_call = NoCall
    /\ start_token = state.payment_token
    /\ topups = 0
    /\ last_resume = "none"
    /\ finalizations = 0

\* ------------------------------------------------------------------------
\* CashuPaymentMiddleware.awrap_tool_call
\* ------------------------------------------------------------------------
\* l.384-405: read the record into locals; on the first call (status
\* "pending") validate the token.  The result holds the record as written so
\* far and the locals token, balance, spent, status.  On a failed validation
\* only the record's status is written: the local status stays "pending".
awrap_init(st, dev) ==
    LET token == st.payment_token
        balance == st.payment_balance_sats
        spent == st.payment_spent_sats
        status == st.payment_status
        v == validate_token_sync(token, dev)
    IN  IF status = "pending" THEN
            IF Truthy(token) THEN
                IF v.is_valid THEN
                    [state |-> [st EXCEPT !.payment_balance_sats = v.amount,
                                          !.payment_status = "active"],
                     token |-> token, balance |-> v.amount, spent |-> spent,
                     status |-> "active", accepted |-> v.amount,
                     accepted_now |-> TRUE, validation_failed |-> FALSE]
                ELSE
                    [state |-> [st EXCEPT !.payment_status = "error"],
                     token |-> token, balance |-> balance, spent |-> spent,
                     status |-> status, accepted |-> 0,
                     accepted_now |-> FALSE, validation_failed |-> TRUE]
            ELSE
                [state |-> [st EXCEPT !.payment_status = "active"],
                 token |-> token, balance |-> balance, spent |-> spent,
                 status |-> "active", accepted |-> 0,
                 accepted_now |-> FALSE, validation_failed |-> FALSE]
        ELSE
            [state |-> st, token |-> token, balance |-> balance,
             spent |-> spent, status |-> status, accepted |-> 0,
             accepted_now |-> FALSE, validation_failed |-> FALSE]

\* funds_exhausted without the test of the token
funds_exhausted_any_session(token, balance, status) ==
    balance <= 0 /\ status = "active"

\* l.408: the test that guards the funding interrupt
funds_exhausted(token, balance, status) ==
    Truthy(token) /\ balance <= 0 /\ status = "active"

\* can_deduct that asks for more than the cost
can_deduct_above_cost(token, balance, cost) == Truthy(token) /\ balance > cost

\* l.446: the test that guards the deduction
can_deduct(token, balance, cost) == Truthy(token) /\ balance >= cost

\* l.413-429: the value handed to interrupt()
make_interrupt_data(spent) ==
    [type |-> "payment_exhausted",
     spent_sats |-> spent,
     message |-> "Payment balance exhausted. Please add more funds.",
     action_name |-> "request_additional_funding",
     action_args |-> [reason |-> "Funds exhausted", spent_so_far |-> spent],
     allowed_decisions |-> {"approve", "reject"}]

\* awrap_resume that takes the new token and balance but leaves the status
\* as the interrupt set it
awrap_resume_keeps_status(st, l, rv, dev) ==
    LET v == validate_token_sync(rv.payment_token, dev) IN
    IF rv.is_dict /\ Truthy(rv.payment_token) /\ v.is_valid THEN
        [state |-> [st EXCEPT !.payment_token = rv.payment_token,
                              !.payment_balance_sats = v.amount],
         balance |-> v.amount, accepted |-> v.amount, topped_up |-> TRUE]
    ELSE
        [state |-> st, balance |-> l.balance, accepted |-> 0,
         topped_up |-> FALSE]

\* l.434-443: the resume value of interrupt().  A dict carrying a token that
\* validates replaces the record's token and balance and reactivates it;
\* every other value changes nothing.
awrap_resume(st, l, rv, dev) ==
    LET v == validate_token_sync(rv.payment_token, dev) IN
    IF rv.is_dict /\ Truthy(rv.payment_token) /\ v.is_valid THEN
        [state |-> [st EXCEPT !.payment_token = rv.payment_token,
                              !.payment_balance_sats = v.amount,
                              !.payment_status = "active"],
         balance |-> v.amount, accepted |-> v.amount, topped_up |-> TRUE]
    ELSE
        [state |-> st, balance |-> l.balance, accepted |-> 0,
         topped_up |-> FALSE]

\* l.445-454: deduct when the locals allow it, then run the tool.  st is the
\* record as written so far, token/balance/spent the locals, lc the account
\* of this call so far.
awrap_finish(st, token, balance, spent, lc) ==
    LET d == can_deduct(token, balance, cost_per_iteration) IN
    /\ state' = IF d
                THEN [st EXCEPT
                        !.payment_balance_sats = balance - cost_per_iteration,
                        !.payment_spent_sats = spent + cost_per_iteration]
                ELSE st
    /\ deductions' = IF d THEN deductions + 1 ELSE deductions
    /\ handler_runs' = handler_runs + 1
    /\ last_call' = [lc EXCEPT !.deducted = d, !.ran = TRUE]
    /\ mw_pc' = "idle"
    /\ frame' = NoFrame

\* awrap_tool_call for a tool whose name starts with "_" (l.380-381): the
\* handler runs, the record is not touched
awrap_tool_call_internal ==
    /\ mw_pc = "idle"
    /\ tool_calls < MaxToolCalls
    /\ tool_calls' = tool_calls + 1
    /\ last_call' = [NoCall EXCEPT !.kind = "internal", !.ran = TRUE]
    /\ UNCHANGED <<DEV_MODE, cost_per_iteration, state, mw_pc, frame,
                   interrupt_data, handler_runs, deductions, accepted_total,
                   first_validation, start_token, topups, last_resume,
                   finalizations>>
    /\ UNCHANGED <<gVars, vVars, wVars>>

\* awrap_tool_call for a billable tool, up to its return or to interrupt()
awrap_tool_call ==
    /\ mw_pc = "idle"
    /\ tool_calls < MaxToolCalls
    /\ tool_calls' = tool_calls + 1
    /\ LET l == awrap_init(state, DEV_MODE)
           lc == [NoCall EXCEPT !.kind = "billable",
                                !.status_at_check = l.status,
                                !.balance_at_check = l.balance,
                                !.validation_failed = l.validation_failed]
       IN  /\ accepted_total' = accepted_total + l.accepted
           /\ first_validation' = IF l.accepted_now THEN "accepted"
                                  ELSE IF l.validation_failed THEN "failed"
                                  ELSE first_validation
           /\ IF funds_exhausted(l.token, l.balance, l.status) THEN
                  /\ state' = [l.state EXCEPT !.payment_status = "exhausted"]
                  /\ interrupt_data' = make_interrupt_data(l.spent)
                  /\ mw_pc' = "interrupt"
                  /\ frame' = [token |-> l.token, balance |-> l.balance,
                               spent |-> l.spent, status |-> l.status]
                  /\ last_call' = [lc EXCEPT !.interrupted = TRUE]
                  /\ UNCHANGED <<handler_runs, deductions>>
              ELSE
                  /\ awrap_finish(l.state, l.token, l.balance, l.spent, lc)
                  /\ UNCHANGED interrupt_data
    /\ UNCHANGED <<DEV_MODE, cost_per_iteration, start_token, topups,
                   last_resume, finalizations>>
    /\ UNCHANGED <<gVars, vVars, wVars>>

\* the client resumes the suspended awrap_tool_call: interrupt() returns rv
\* and the call runs on from l.434 to its return
awrap_tool_call_resume ==
    /\ mw_pc = "interrupt"
    /\ \E rv \in ResumeValues :
         LET r == awrap_resume(state, frame, rv, DEV_MODE) IN
         /\ accepted_total' = accepted_total + r.accepted
         /\ topups' = IF r.topped_up THEN topups + 1 ELSE topups
         /\ last_resume' = IF r.topped_up THEN "accepted" ELSE "declined"
         /\ awrap_finish(r.state, frame.token, r.balance, frame.spent, last_call)
    /\ UNCHANGED <<DEV_MODE, cost_per_iteration, interrupt_data, tool_calls,
                   first_validation, start_token, finalizations>>
    /\ UNCHANGED <<gVars, vVars, wVars>>

\* ------------------------------------------------------------------------
\* CashuPaymentMiddleware.after_agent
\* ------------------------------------------------------------------------
\* after_agent_update refunding what was spent instead of what is left
after_agent_update_refunds_spent(st) ==
    LET token == st.payment_token
        balance == st.payment_balance_sats
        refund_token == generate_refund_token_sync(token, st.payment_spent_sats)
    IN  IF ~Truthy(token) \/ balance <= 0 THEN
            [st EXCEPT !.payment_status = "completed"]
        ELSE IF Truthy(refund_token) THEN
            [st EXCEPT !.payment_status = "completed",
                       !.payment_refund_token = refund_token,
                       !.payment_refund_claimed = FALSE]
        ELSE
            [st EXCEPT !.payment_status = "completed"]

\* the update after_agent returns, applied to the record
after_agent_update(st) ==
    LET token == st.payment_token
        balance == st.payment_balance_sats
        refund_token == generate_refund_token_sync(token, balance)
    IN  IF ~Truthy(token) \/ balance <= 0 THEN
            [st EXCEPT !.payment_status = "completed"]
        ELSE IF Truthy(refund_token) THEN
            [st EXCEPT !.payment_status = "completed",
                       !.payment_refund_token = refund_token,
                       !.payment_refund_claimed = FALSE]
        ELSE
            [st EXCEPT !.payment_status = "completed"]

after_agent ==
    /\ mw_pc = "idle"
    /\ finalizations < MaxFinalizations
    /\ finalizations' = finalizations + 1
    /\ state' = after_agent_update(state)
    /\ UNCHANGED <<DEV_MODE, cost_per_iteration, mw_pc, frame, interrupt_data,
                   tool_calls, handler_runs, deductions, accepted_total,
                   first_validation, last_call, start_token, topups,
                   last_resume>>
    /\ UNCHANGED <<gVars, vVars, wVars>>

\* the client acknowledges receipt of the refund token: refund_claimed
\* becomes True and the session goes completed|error -> refunded
client_claims_refund ==
    /\ mw_pc = "idle"
    /\ Truthy(state.payment_refund_token)
    /\ state.payment_status \in {"completed", "error"}
    /\ ~state.payment_refund_claimed
    /\ state' = [state EXCEPT !.payment_refund_claimed = TRUE,
                              !.payment_status = "refunded"]
    /\ UNCHANGED <<DEV_MODE, cost_per_iteration, mw_pc, frame, interrupt_data,
                   tool_calls, handler_runs, deductions, accepted_total,
                   first_validation, last_call, start_token, topups,
                   last_resume, finalizations>>
    /\ UNCHANGED <<gVars, vVars, wVars>>

NextMw ==
    \/ awrap_tool_call
    \/ awrap_tool_call_internal
    \/ awrap_tool_call_resume
    \/ after_agent
    \/ client_claims_refund

\* ------------------------------------------------------------------------
\* Reader and web agent graphs: payment helpers
\* ------------------------------------------------------------------------
\* base64.urlsafe_b64decode of n characters of the base64url alphabet, padded
\* as l.285-287 pad them: it raises when n = 1 (mod 4), and otherwise yields
\* floor(3n/4) bytes
b64decode_raises(n) == n % 4 = 1

b64decode_len(n) == (3 * n) \div 4

\* validate_token_format(token); the same text in both graphs
validate_token_format(token) ==
    IF ~(StartsWith(token, s_cashuA) \/ StartsWith(token, s_cashuB)) THEN FALSE
    ELSE LET token_data == SubSeq(token, 7, Len(token)) IN
         IF b64decode_raises(Len(token_data)) THEN FALSE
         ELSE IF b64decode_len(Len(token_data)) < 10 THEN FALSE
         ELSE TRUE

\* validate_token_state(token): the is_valid component of its result
validate_token_state(token) == validate_token_format(token)

\* answers of the wallet service to POST /receive, as redeem_token_to_wallet
\* sees them: the request raised (or timed out), a status other than 200,
\* a 200 with success false, a 200 with success true; "already_spent" is the
\* 200 with success false and the mint's error text that receive_token gives
\* for a token redeemed before
WalletAnswers == {"exception", "non200", "success_false", "already_spent",
                  "success_true"}

\* redeem_token_to_wallet(token), given the wallet's answer
redeem_token_to_wallet(answer) == answer = "success_true"

\* ------------------------------------------------------------------------
\* Reader and web agent graphs: inputs and initial state
\* ------------------------------------------------------------------------
\* tokens a client may send with a message
GraphTokens == {None, TokDebug, TokDebug15, TokMalformed, TokShort,
                TokReal20, TokReal10}

\* tool calls one LLM response may carry
MaxCallsPerMessage == 2

HumanMsg == [type |-> "human", tool_calls |-> 0, content |-> "query"]
AiMsg(n) == [type |-> "ai", tool_calls |-> n, content |-> "response"]
AiNote(c) == [type |-> "ai", tool_calls |-> 0, content |-> c]
ToolMsg == [type |-> "tool", tool_calls |-> 0, content |-> "result"]

RECURSIVE Rep(_, _)
Rep(x, n) == IF n = 0 THEN <<>> ELSE <<x>> \o Rep(x, n - 1)

\* the state at __start__: the input channels set by the client, the others
\* absent (read through their .get defaults: payment_validated True)
InitGraph ==
    /\ graph \in {"reader", "web"}
    /\ \E t \in GraphTokens : payment = [ecash_token |-> t]
    /\ messages \in {<<>>, <<HumanMsg>>}
    /\ payment_validated = TRUE
    /\ payment_token = None
    /\ refund = FALSE
    /\ classification = "unset"
    /\ tool_call_count = 0
    /\ research_iteration = 0
    /\ node = "validate_payment"
    /\ paused = FALSE
    /\ executed = {}
    /\ llm_calls = 0
    /\ llm_raised = {}
    /\ redeem_calls = <<>>
    /\ redeemed = <<>>
    /\ wallet_answers = <<>>
    /\ tools_runs = 0
    /\ operator_log = {}

\* the middleware session at rest, for the specifications of the graphs
IdleMw ==
    /\ DEV_MODE \in BOOLEAN
    /\ cost_per_iteration = COST_PER_ITERATION_SATS
    /\ state = [payment_token |-> None, payment_balance_sats |-> 0,
                payment_spent_sats |-> 0, payment_status |-> "pending",
                payment_refund_token |-> None,
                payment_refund_claimed |-> FALSE]
    /\ mw_pc = "idle"
    /\ frame = NoFrame
    /\ interrupt_data = NoInterrupt
    /\ tool_calls = 0
    /\ handler_runs = 0
    /\ deductions = 0
    /\ accepted_total = 0
    /\ first_validation = "none"
    /\ last_call = NoCall
    /\ start_token = state.payment_token
    /\ topups = 0
    /\ last_resume = "none"
    /\ finalizations = 0

\* no direct validator call is under way, for the specifications of the
\* middleware and of the graphs
IdleValidate ==
    /\ v_token = None
    /\ v_sync = <<>>
    /\ v_format = <<>>
    /\ v_state = <<>>
    /\ v_wallet_requests = <<>>

\* requests to the wallet service
Req == 1..MaxRequests

NoResponse == [status |-> "none", success |-> FALSE, amount |-> 0,
               token |-> {}, error |-> "None"]

NoRequest == [kind |-> "none", amount |-> 0, token |-> "none", pc |-> "done",
              balance |-> 0, sweep_balance |-> 0, send_proofs |-> {},
              response |-> NoResponse]

\* the wallet service without requests, for the other specifications
IdleWallet ==
    /\ w_held = {}
    /\ w_reserved = {}
    /\ w_mint_spent = {}
    /\ w_req = [r \in Req |-> NoRequest]

\* the graphs at rest, for the specification of the middleware
IdleGraph ==
    /\ graph = "reader"
    /\ payment = [ecash_token |-> None]
    /\ messages = <<>>
    /\ payment_validated = TRUE
    /\ payment_token = None
    /\ refund = FALSE
    /\ classification = "unset"
    /\ tool_call_count = 0
    /\ research_iteration = 0
    /\ node = "END"
    /\ paused = FALSE
    /\ executed = {}
    /\ llm_calls = 0
    /\ llm_raised = {}
    /\ redeem_calls = <<>>
    /\ redeemed = <<>>
    /\ wallet_answers = <<>>
    /\ tools_runs = 0
    /\ operator_log = {}

\* ------------------------------------------------------------------------
\* Nodes common to both graphs (the two files carry the same text)
\* ------------------------------------------------------------------------
webChannels == <<classification, tool_call_count, research_iteration>>

\* the update validate_payment_node returns, and what it prints of the token
validate_payment_update(pay) ==
    LET token == pay.ecash_token IN
    IF ~Truthy(token) THEN
        [payment_validated |-> TRUE, payment_token |-> None, refund |-> FALSE,
         printed |-> {}]
    ELSE IF StartsWith(token, s_cashu_debug_) \/ token = s_debug THEN
        [payment_validated |-> TRUE, payment_token |-> None, refund |-> FALSE,
         printed |-> {}]
    ELSE IF ~validate_token_state(token) THEN
        [payment_validated |-> FALSE, payment_token |-> None, refund |-> TRUE,
         printed |-> {<<"RECEIVED TOKEN", token>>}]
    ELSE
        [payment_validated |-> TRUE, payment_token |-> token, refund |-> FALSE,
         printed |-> {<<"RECEIVED TOKEN", token>>}]

\* route_after_validation: the reader goes on to "agent", the web graph to
\* "router"
route_after_validation(validated, first) == IF validated THEN first ELSE "END"

\* finalize_redeems with a retry: the token is sent to the wallet a second time
finalize_redeems_retry(token) == IF Truthy(token) THEN <<token, token>> ELSE <<>>

\* the tokens finalize_node passes to redeem_token_to_wallet
finalize_redeems(token) == IF Truthy(token) THEN <<token>> ELSE <<>>

\* the static edge out of finalize
edge_finalize == "END"

\* the log entry written with the first 10 characters of the token only
unredeemed_log_entry_preview(banner, token) == <<banner, SubSeq(token, 1, 10)>>

\* what finalize_node prints when the redemption failed: the banner line and
\* the token
unredeemed_log_entry(banner, token) == <<banner, token>>

\* finalize_node asking for a refund when the redemption failed
finalize_refund_on_failure(ok) == ~ok

\* the refund finalize_node returns, ok being the result of the redemption:
\* {"refund": False} on every path
finalize_refund(ok) == FALSE

\* finalize_node of graph g, with banner the line printed over a token whose
\* redemption failed
finalize(g, banner) ==
    /\ graph = g
    /\ node = "finalize"
    /\ \E answer \in WalletAnswers :
         LET calls == finalize_redeems(payment_token)
             ok == redeem_token_to_wallet(answer)
         IN  /\ redeem_calls' = redeem_calls \o calls
             /\ redeemed' = redeemed \o Rep(ok, Len(calls))
             /\ wallet_answers' = wallet_answers \o Rep(answer, Len(calls))
             /\ operator_log' =
                  IF Len(calls) > 0 /\ ~ok
                  THEN operator_log
                         \cup {unredeemed_log_entry(banner, payment_token)}
                  ELSE operator_log
             /\ refund' = finalize_refund(Len(calls) = 0 \/ ok)
    /\ node' = edge_finalize
    /\ executed' = executed \cup {"finalize"}
    /\ UNCHANGED <<graph, payment, messages, payment_validated, payment_token,
                   webChannels, paused, llm_calls, llm_raised, tools_runs>>
    /\ UNCHANGED <<mwVars, vVars, wVars>>

\* ------------------------------------------------------------------------
\* Reader agent graph
\* ------------------------------------------------------------------------
reader_validate_payment_node ==
    /\ graph = "reader"
    /\ node = "validate_payment"
    /\ LET u == validate_payment_update(payment) IN
       /\ payment_validated' = u.payment_validated
       /\ payment_token' = u.payment_token
       /\ refund' = u.refund
       /\ operator_log' = operator_log \cup u.printed
       /\ node' = route_after_validation(u.payment_validated, "agent")
    /\ executed' = executed \cup {"validate_payment"}
    /\ UNCHANGED <<graph, payment, messages, webChannels, paused, llm_calls,
                   llm_raised, redeem_calls, redeemed, wallet_answers, tools_runs>>
    /\ UNCHANGED <<mwVars, vVars, wVars>>

\* should_continue looking at the first message instead of the last
should_continue_first(msgs) ==
    IF Len(msgs) = 0 THEN "finalize"
    ELSE IF msgs[1].tool_calls > 0 THEN "tools"
    ELSE "finalize"

\* should_continue: "tools" when the last message carries tool calls
should_continue(msgs) ==
    IF Len(msgs) = 0 THEN "finalize"
    ELSE IF msgs[Len(msgs)].tool_calls > 0 THEN "tools"
    ELSE "finalize"

\* agent_node; the conditional edge should_continue is taken on its result,
\* and interrupt_before=["tools"] stops the run in front of the tools node
agent_node ==
    /\ graph = "reader"
    /\ node = "agent"
    /\ IF ~payment_validated THEN
           /\ messages' = Append(messages, AiNote("payment_validation_failed"))
           /\ refund' = TRUE
           /\ UNCHANGED <<llm_calls, llm_raised, operator_log>>
       ELSE
           /\ llm_calls' = llm_calls + 1
           /\ \/ \E n \in 0..MaxCallsPerMessage :
                   /\ n > 0 => llm_calls < MaxAgentSteps
                   /\ messages' = Append(messages, AiMsg(n))
                   /\ UNCHANGED <<refund, llm_raised, operator_log>>
              \/ /\ messages' = Append(messages, AiNote("error_payment_not_taken"))
                 /\ refund' = TRUE
                 /\ llm_raised' = llm_raised \cup {"agent"}
                 /\ operator_log' =
                      IF Truthy(payment_token)
                      THEN operator_log \cup {<<"REFUNDABLE TOKEN", payment_token>>}
                      ELSE operator_log
    /\ node' = should_continue(messages')
    /\ paused' = (should_continue(messages') = "tools")
    /\ executed' = executed \cup {"agent"}
    /\ UNCHANGED <<graph, payment, payment_validated, payment_token,
                   webChannels, redeem_calls, redeemed, wallet_answers, tools_runs>>
    /\ UNCHANGED <<mwVars, vVars, wVars>>

\* the client resumes the run that interrupt_before stopped
reader_resume ==
    /\ graph = "reader"
    /\ node = "tools"
    /\ paused
    /\ paused' = FALSE
    /\ UNCHANGED <<graph, payment, messages, payment_validated, payment_token,
                   refund, webChannels, node, executed, llm_calls, llm_raised,
                   redeem_calls, redeemed, wallet_answers, tools_runs, operator_log>>
    /\ UNCHANGED <<mwVars, vVars, wVars>>

\* tool_node: one ToolMessage per tool call of the last message; the static
\* edge leads back to agent
reader_tool_node ==
    /\ graph = "reader"
    /\ node = "tools"
    /\ ~paused
    /\ messages' = messages \o Rep(ToolMsg, messages[Len(messages)].tool_calls)
    /\ node' = "agent"
    /\ tools_runs' = tools_runs + 1
    /\ executed' = executed \cup {"tools"}
    /\ UNCHANGED <<graph, payment, payment_validated, payment_token, refund,
                   webChannels, paused, llm_calls, llm_raised, redeem_calls,
                   redeemed, wallet_answers, operator_log>>
    /\ UNCHANGED <<mwVars, vVars, wVars>>

reader_finalize_node == finalize("reader", "UNREDEEMED TOKEN - MANUAL RECOVERY NEEDED")

NextReader ==
    \/ reader_validate_payment_node
    \/ agent_node
    \/ reader_resume
    \/ reader_tool_node
    \/ reader_finalize_node

\* ------------------------------------------------------------------------
\* Web agent graph
\* ------------------------------------------------------------------------
web_validate_payment_node ==
    /\ graph = "web"
    /\ node = "validate_payment"
    /\ LET u == validate_payment_update(payment) IN
       /\ payment_validated' = u.payment_validated
       /\ payment_token' = u.payment_token
       /\ refund' = u.refund
       /\ operator_log' = operator_log \cup u.printed
       /\ node' = route_after_validation(u.payment_validated, "router")
    /\ executed' = executed \cup {"validate_payment"}
    /\ UNCHANGED <<graph, payment, messages, webChannels, paused, llm_calls,
                   llm_raised, redeem_calls, redeemed, wallet_answers, tools_runs>>
    /\ UNCHANGED <<mwVars, vVars, wVars>>

\* route_after_router
route_after_router(c) == IF c = "skip_search" THEN "direct_response" ELSE "researcher"

\* the last human message exists and is not empty
has_user_query(msgs) == \E i \in 1..Len(msgs) : msgs[i].type = "human"

\* router_node, followed by the conditional edge route_after_router.  A
\* classification that was never set routes like skip_search False.
router_node ==
    /\ graph = "web"
    /\ node = "router"
    /\ IF ~payment_validated THEN
           /\ messages' = Append(messages, AiNote("payment_validation_failed"))
           /\ refund' = TRUE
           /\ UNCHANGED <<classification, llm_calls, llm_raised>>
       ELSE IF Len(messages) = 0 \/ ~has_user_query(messages) THEN
           /\ classification' = "skip_search"
           /\ UNCHANGED <<messages, refund, llm_calls, llm_raised>>
       ELSE
           /\ llm_calls' = llm_calls + 1
           /\ \/ /\ classification' \in {"skip_search", "search"}
                 /\ UNCHANGED llm_raised
              \/ /\ classification' = "search"
                 /\ llm_raised' = llm_raised \cup {"router"}
           /\ UNCHANGED <<messages, refund>>
    /\ node' = route_after_router(classification')
    /\ executed' = executed \cup {"router"}
    /\ UNCHANGED <<graph, payment, payment_validated, payment_token,
                   tool_call_count, research_iteration, paused, redeem_calls,
                   redeemed, wallet_answers, tools_runs, operator_log>>
    /\ UNCHANGED <<mwVars, vVars, wVars>>

\* direct_response_node; the static edge leads to finalize
direct_response_node ==
    /\ graph = "web"
    /\ node = "direct_response"
    /\ llm_calls' = llm_calls + 1
    /\ \/ /\ messages' = Append(messages, AiMsg(0))
          /\ UNCHANGED llm_raised
       \/ /\ messages' = Append(messages, AiNote("hello_fallback"))
          /\ llm_raised' = llm_raised \cup {"direct_response"}
    /\ node' = "finalize"
    /\ executed' = executed \cup {"direct_response"}
    /\ UNCHANGED <<graph, payment, payment_validated, payment_token, refund,
                   webChannels, paused, redeem_calls, redeemed, wallet_answers, tools_runs,
                   operator_log>>
    /\ UNCHANGED <<mwVars, vVars, wVars>>

\* should_continue_research without the check of research_iteration
should_continue_research_uncapped(msgs, count, iteration) ==
    IF Len(msgs) = 0 THEN "writer"
    ELSE IF count >= MAX_TOOL_CALLS THEN "writer"
    ELSE IF msgs[Len(msgs)].tool_calls > 0 THEN "tools"
    ELSE "writer"

\* should_continue_research
should_continue_research(msgs, count, iteration) ==
    IF Len(msgs) = 0 THEN "writer"
    ELSE IF count >= MAX_TOOL_CALLS THEN "writer"
    ELSE IF iteration >= MAX_RESEARCH_ITERATIONS THEN "writer"
    ELSE IF msgs[Len(msgs)].tool_calls > 0 THEN "tools"
    ELSE "writer"

\* researcher_node, followed by the conditional edge should_continue_research
researcher_node ==
    /\ graph = "web"
    /\ node = "researcher"
    /\ llm_calls' = llm_calls + 1
    /\ \/ \E n \in 0..MaxCallsPerMessage :
            /\ messages' = Append(messages, AiMsg(n))
            /\ research_iteration' = research_iteration + 1
            /\ UNCHANGED llm_raised
       \/ /\ messages' = Append(messages, AiNote("error_while_researching"))
          /\ llm_raised' = llm_raised \cup {"researcher"}
          /\ UNCHANGED research_iteration
    /\ node' = should_continue_research(messages', tool_call_count,
                                        research_iteration')
    /\ executed' = executed \cup {"researcher"}
    /\ UNCHANGED <<graph, payment, payment_validated, payment_token, refund,
                   classification, tool_call_count, paused, redeem_calls,
                   redeemed, wallet_answers, tools_runs, operator_log>>
    /\ UNCHANGED <<mwVars, vVars, wVars>>

\* the increment tools_with_count computes: the number of tool calls of the
\* latest message that carries any
RECURSIVE last_tool_calls(_)
last_tool_calls(msgs) ==
    IF Len(msgs) = 0 THEN 0
    ELSE IF msgs[Len(msgs)].tool_calls > 0 THEN msgs[Len(msgs)].tool_calls
    ELSE last_tool_calls(SubSeq(msgs, 1, Len(msgs) - 1))

\* tools_with_count; the static edge leads back to researcher
tools_with_count ==
    /\ graph = "web"
    /\ node = "tools"
    /\ messages' = messages \o Rep(ToolMsg, messages[Len(messages)].tool_calls)
    /\ tool_call_count' = tool_call_count + last_tool_calls(messages)
    /\ node' = "researcher"
    /\ tools_runs' = tools_runs + 1
    /\ executed' = executed \cup {"tools"}
    /\ UNCHANGED <<graph, payment, payment_validated, payment_token, refund,
                   classification, research_iteration, paused, llm_calls,
                   llm_raised, redeem_calls, redeemed, wallet_answers, operator_log>>
    /\ UNCHANGED <<mwVars, vVars, wVars>>

\* writer_node; the static edge leads to finalize
writer_node ==
    /\ graph = "web"
    /\ node = "writer"
    /\ llm_calls' = llm_calls + 1
    /\ \/ /\ messages' = Append(messages, AiMsg(0))
          /\ UNCHANGED llm_raised
       \/ /\ messages' = Append(messages, AiNote("trouble_synthesizing"))
          /\ llm_raised' = llm_raised \cup {"writer"}
    /\ node' = "finalize"
    /\ executed' = executed \cup {"writer"}
    /\ UNCHANGED <<graph, payment, payment_validated, payment_token, refund,
                   webChannels, paused, redeem_calls, redeemed, wallet_answers, tools_runs,
                   operator_log>>
    /\ UNCHANGED <<mwVars, vVars, wVars>>

web_finalize_node == finalize("web", "UNREDEEMED TOKEN")

NextWeb ==
    \/ web_validate_payment_node
    \/ router_node
    \/ direct_response_node
    \/ researcher_node
    \/ tools_with_count
    \/ writer_node
    \/ web_finalize_node

\* ------------------------------------------------------------------------
\* Specifications
\* ------------------------------------------------------------------------
\* one middleware session
InitSession == InitMw /\ IdleGraph /\ IdleValidate /\ IdleWallet

\* ------------------------------------------------------------------------
\* Direct calls of the token validators
\* ------------------------------------------------------------------------
\* strings the validators are called with
ValidatorTokens == {None, TokDebug, TokDebug15, TokDebug10, TokDebug5,
                    TokDebugNeg5, TokDebugBare, TokDebugA7, TokMalformed,
                    TokShort, TokUndecodable, TokReal20, TokReal10}

InitValidate ==
    /\ IdleMw
    /\ IdleGraph
    /\ IdleWallet
    /\ v_token \in ValidatorTokens
    /\ v_sync = <<>>
    /\ v_format = <<>>
    /\ v_state = <<>>
    /\ v_wallet_requests = <<>>

\* validators that ask the wallet service to receive the token they check
validator_wallet_requests_receive(token) == <<token>>

\* the requests a validator sends to the wallet service for a token: none
\* (validate_token_sync parses with the cashu library, validate_token_format
\* decodes base64, validate_token_state only calls validate_token_format)
validator_wallet_requests(token) == <<>>

\* one call validate_token_sync(v_token)
call_validate_token_sync ==
    /\ Len(v_sync) < MaxValidations
    /\ v_sync' = Append(v_sync, validate_token_sync(v_token, DEV_MODE))
    /\ v_wallet_requests' =
         v_wallet_requests \o validator_wallet_requests(v_token)
    /\ UNCHANGED <<v_token, v_format, v_state>>
    /\ UNCHANGED <<mwVars, gVars, wVars>>

\* one call validate_token_format(v_token)
call_validate_token_format ==
    /\ Len(v_format) < MaxValidations
    /\ v_format' = Append(v_format, validate_token_format(v_token))
    /\ v_wallet_requests' =
         v_wallet_requests \o validator_wallet_requests(v_token)
    /\ UNCHANGED <<v_token, v_sync, v_state>>
    /\ UNCHANGED <<mwVars, gVars, wVars>>

\* one call validate_token_state(v_token): the pair it returns; its second
\* component is None on both paths
call_validate_token_state ==
    /\ Len(v_state) < MaxValidations
    /\ v_state' = Append(v_state, [is_valid |-> validate_token_state(v_token),
                                   error |-> "None"])
    /\ v_wallet_requests' =
         v_wallet_requests \o validator_wallet_requests(v_token)
    /\ UNCHANGED <<v_token, v_sync, v_format>>
    /\ UNCHANGED <<mwVars, gVars, wVars>>

NextValidate ==
    \/ call_validate_token_sync
    \/ call_validate_token_format
    \/ call_validate_token_state

SpecValidate == InitValidate /\ [][NextValidate]_vars

\* ------------------------------------------------------------------------
\* Wallet service: WalletService and the /api/wallet endpoints
\* ------------------------------------------------------------------------
\* Every proof is worth 1 sat, so that a selection for any amount up to the
\* balance is exact and select_to_send never has to swap at the mint.  A
\* token is the set of the proofs serialized into it.
\* sum_proofs of a set of proofs
proofs_value(proofs) == Cardinality(proofs)

\* self._wallet.available_balance after load_proofs(reload=True): the value
\* of the proofs the database does not mark reserved
available_balance(held, reserved) == proofs_value(held \ reserved)

\* the proofs in the wallet database when the requests arrive
InitialProofs == {1, 2}

\* amounts asked of POST /send
SendAmounts == {1, 2}

\* tokens sent to POST /receive, each of one proof
IncomingTokens == {"t1"}

\* the proof the wallet stores for the token request r brought
NewProof(r) == Cardinality(InitialProofs) + r

\* the requests as they arrive
StartRequests ==
    {[NoRequest EXCEPT !.kind = "sweep", !.pc = "start"]}
    \cup {[NoRequest EXCEPT !.kind = "send", !.amount = a, !.pc = "start"] :
             a \in SendAmounts}
    \cup {[NoRequest EXCEPT !.kind = "receive", !.token = t, !.pc = "start"] :
             t \in IncomingTokens}

InitWallet ==
    /\ IdleMw
    /\ IdleGraph
    /\ IdleValidate
    /\ w_held \in {{}, InitialProofs}
    /\ w_reserved = {}
    /\ w_mint_spent = {}
    /\ w_req \in [Req -> StartRequests]

\* Wallet.select_to_send(proofs, amount, set_reserved=False) on unreserved
\* proofs of 1 sat: the first amount proofs
RECURSIVE select_to_send(_, _)
select_to_send(proofs, amount) ==
    IF amount = 0 \/ proofs = {} THEN {}
    ELSE LET m == CHOOSE x \in proofs : \A y \in proofs : x <= y IN
         {m} \cup select_to_send(proofs \ {m}, amount - 1)

\* what the endpoint of a request answers when create_send_token returned
\* None: sweep_funds l.99-104, send_token l.130-134
create_failed(kind) ==
    IF kind = "sweep"
    THEN [status |-> "200", success |-> FALSE, amount |-> 0, token |-> {},
          error |-> "Failed to create sweep token"]
    ELSE [status |-> "500", success |-> FALSE, amount |-> 0, token |-> {},
          error |-> "Failed to create send token"]

\* POST /sweep, l.81-89: the endpoint reads the balance
sweep_funds ==
    /\ \E r \in Req :
         /\ w_req[r].kind = "sweep"
         /\ w_req[r].pc = "start"
         /\ LET balance == available_balance(w_held, w_reserved) IN
            w_req' = [w_req EXCEPT ![r] =
                IF balance <= 0
                THEN [@ EXCEPT !.balance = balance, !.pc = "done",
                               !.response =
                                  [status |-> "200", success |-> FALSE,
                                   amount |-> 0, token |-> {},
                                   error |-> "No funds to sweep"]]
                ELSE [@ EXCEPT !.balance = balance, !.pc = "sweep_all"]]
    /\ UNCHANGED <<w_held, w_reserved, w_mint_spent>>
    /\ UNCHANGED <<mwVars, gVars, vVars>>

\* WalletService.sweep_all, l.231-236: reads the balance again and asks
\* create_send_token for it
sweep_all ==
    /\ \E r \in Req :
         /\ w_req[r].pc = "sweep_all"
         /\ LET balance == available_balance(w_held, w_reserved) IN
            w_req' = [w_req EXCEPT ![r] =
                IF balance <= 0
                THEN [@ EXCEPT !.sweep_balance = balance, !.pc = "done",
                               !.response = create_failed("sweep")]
                ELSE [@ EXCEPT !.sweep_balance = balance,
                               !.amount = balance, !.pc = "create"]]
    /\ UNCHANGED <<w_held, w_reserved, w_mint_spent>>
    /\ UNCHANGED <<mwVars, gVars, vVars>>

\* POST /send, l.117-124: the endpoint reads the balance
send_token ==
    /\ \E r \in Req :
         /\ w_req[r].kind = "send"
         /\ w_req[r].pc = "start"
         /\ LET balance == available_balance(w_held, w_reserved) IN
            w_req' = [w_req EXCEPT ![r] =
                IF w_req[r].amount > balance
                THEN [@ EXCEPT !.balance = balance, !.pc = "done",
                               !.response =
                                  [status |-> "400", success |-> FALSE,
                                   amount |-> 0, token |-> {},
                                   error |-> "Insufficient balance"]]
                ELSE [@ EXCEPT !.balance = balance, !.pc = "create"]]
    /\ UNCHANGED <<w_held, w_reserved, w_mint_spent>>
    /\ UNCHANGED <<mwVars, gVars, vVars>>

\* WalletService.create_send_token, l.195-210: reload the proofs, compare
\* the amount with the balance, select the proofs to send
create_send_token ==
    /\ \E r \in Req :
         /\ w_req[r].pc = "create"
         /\ LET balance == available_balance(w_held, w_reserved) IN
            w_req' = [w_req EXCEPT ![r] =
                IF w_req[r].amount > balance
                THEN [@ EXCEPT !.pc = "done",
                               !.response = create_failed(w_req[r].kind)]
                ELSE [@ EXCEPT !.send_proofs =
                                  select_to_send(w_held \ w_reserved,
                                                 w_req[r].amount),
                               !.pc = "serialize"]]
    /\ UNCHANGED <<w_held, w_reserved, w_mint_spent>>
    /\ UNCHANGED <<mwVars, gVars, vVars>>

\* create_send_token, l.213: await serialize_proofs(send_proofs)
serialize_proofs ==
    /\ \E r \in Req :
         /\ w_req[r].pc = "serialize"
         /\ w_req' = [w_req EXCEPT ![r].pc = "reserve"]
    /\ UNCHANGED <<w_held, w_reserved, w_mint_spent>>
    /\ UNCHANGED <<mwVars, gVars, vVars>>

\* create_send_token, l.216-219: await set_reserved_for_send, return the
\* token; the endpoint answers (sweep_funds l.93-98 with the balance it read
\* itself, send_token l.128-129 with the amount asked)
set_reserved_for_send ==
    /\ \E r \in Req :
         /\ w_req[r].pc = "reserve"
         /\ w_reserved' = w_reserved \cup w_req[r].send_proofs
         /\ w_req' = [w_req EXCEPT ![r] =
                [@ EXCEPT !.pc = "done",
                          !.response =
                             [status |-> "200", success |-> TRUE,
                              amount |-> IF w_req[r].kind = "sweep"
                                         THEN w_req[r].balance
                                         ELSE w_req[r].amount,
                              token |-> w_req[r].send_proofs,
                              error |-> "None"]]]
    /\ UNCHANGED <<w_held, w_mint_spent>>
    /\ UNCHANGED <<mwVars, gVars, vVars>>

\* POST /receive, WalletService.receive_token l.129-162: the mint swaps the
\* token's proof for a new one, which the wallet stores; a token the mint
\* has seen makes receive() raise and the answer is success False
receive_token ==
    /\ \E r \in Req :
         /\ w_req[r].kind = "receive"
         /\ w_req[r].pc = "start"
         /\ IF w_req[r].token \in w_mint_spent THEN
                /\ w_req' = [w_req EXCEPT ![r] =
                       [@ EXCEPT !.pc = "done",
                                 !.response =
                                    [status |-> "200", success |-> FALSE,
                                     amount |-> 0, token |-> {},
                                     error |-> "Token already spent"]]]
                /\ UNCHANGED <<w_held, w_mint_spent>>
            ELSE
                /\ w_mint_spent' = w_mint_spent \cup {w_req[r].token}
                /\ w_held' = w_held \cup {NewProof(r)}
                /\ w_req' = [w_req EXCEPT ![r] =
                       [@ EXCEPT !.pc = "done",
                                 !.response =
                                    [status |-> "200", success |-> TRUE,
                                     amount |-> proofs_value({NewProof(r)}),
                                     token |-> {}, error |-> "None"]]]
    /\ UNCHANGED w_reserved
    /\ UNCHANGED <<mwVars, gVars, vVars>>

NextWallet ==
    \/ sweep_funds
    \/ sweep_all
    \/ send_token
    \/ create_send_token
    \/ serialize_proofs
    \/ set_reserved_for_send
    \/ receive_token

\* concurrent requests to the wallet service
SpecWallet == InitWallet /\ [][NextWallet]_vars

SpecMw == InitSession /\ [][NextMw]_vars

\* one run of the reader agent graph or of the web agent graph
Init == IdleMw /\ InitGraph /\ IdleValidate /\ IdleWallet

Next == NextReader \/ NextWeb

Spec == Init /\ [][Next]_vars

\* the runs of the web agent graph under the scheduling of the graph runtime:
\* a node the edges have scheduled is executed, so a step of the web graph
\* that stays possible is eventually taken
SpecWebLive == Init /\ [][Next]_vars /\ WF_vars(NextWeb)

\* ------------------------------------------------------------------------
\* Properties of the graphs (under Spec)
\* ------------------------------------------------------------------------
LastMessage == messages[Len(messages)]

\* C1: in the reader and in the web agent graph, when an LLM call of a work
\* node raised during a run that carries a validated token, the token is
\* never passed to redeem_token_to_wallet in that run.
C1_NoRedeemAfterWorkFailure ==
    (llm_raised # {} /\ Truthy(payment_token)) => redeem_calls = <<>>

\* C6: within one run of the reader agent graph, redeem_token_to_wallet is
\* called at most once, whatever the number of agent/tools iterations and
\* of pauses and resumes.
C6_RedeemAtMostOnce ==
    graph = "reader" => Len(redeem_calls) <= 1

\* a reader run that went through the tools node twice (two pauses, two
\* resumes), reached END and redeemed its token
C6_Witness ==
    /\ graph = "reader"
    /\ node = "END"
    /\ tools_runs >= 2
    /\ Len(redeem_calls) = 1
    /\ redeem_calls[1] = payment_token

\* C7: in the reader agent graph a redemption has been attempted only once
\* finalize_node has run, and then the last agent step answered without
\* pending tool calls; while the run is paused before tools, or has not
\* reached finalize, no redemption has been attempted.
C7_RedeemOnlyAfterFinalAnswer ==
    graph = "reader" =>
        /\ redeem_calls # <<>> =>
              /\ "finalize" \in executed
              /\ ~paused
              /\ Len(messages) > 0
              /\ LastMessage.type = "ai"
              /\ LastMessage.tool_calls = 0
        /\ (paused \/ "finalize" \notin executed) => redeem_calls = <<>>

\* a reader run with a validated token, paused before tools for the second
\* time: an abandoned session whose token is still unspent
C7_Witness ==
    /\ graph = "reader"
    /\ paused
    /\ node = "tools"
    /\ tools_runs >= 1
    /\ Truthy(payment_token)
    /\ LastMessage.tool_calls > 0
    /\ redeem_calls = <<>>

\* the run's token reached validate_token_state and failed it
FailsValidation(token) ==
    /\ Truthy(token)
    /\ ~(StartsWith(token, s_cashu_debug_) \/ token = s_debug)
    /\ ~validate_token_format(token)

\* C9: a reader run whose token fails validate_token_format ends at END with
\* payment_validated False and refund True, without agent_node or
\* finalize_node running, without LLM call or redemption attempt, and with
\* a failure message for the user among the messages.
C9_InvalidTokenEndsWithMessage ==
    (graph = "reader" /\ node = "END" /\ FailsValidation(payment.ecash_token)) =>
        /\ payment_validated = FALSE
        /\ refund = TRUE
        /\ "agent" \notin executed
        /\ "finalize" \notin executed
        /\ llm_calls = 0
        /\ redeem_calls = <<>>
        /\ \E i \in 1..Len(messages) :
              messages[i].type = "ai"
              /\ messages[i].content = "payment_validation_failed"

\* C10: in the reader agent graph, when the LLM call of agent_node raised
\* during a run with a validated token, the run ends with refund True.
C10_RefundSignalKept ==
    (graph = "reader" /\ node = "END" /\ "agent" \in llm_raised
        /\ Truthy(payment_token)) => refund = TRUE

\* ------------------------------------------------------------------------
\* Properties of the middleware session (under SpecMw)
\* ------------------------------------------------------------------------
\* the session is metered: a payment token is present
Metered == Truthy(state.payment_token)

\* C2: in a metered session the handler of a billable tool call runs only
\* after cost_per_iteration was deducted for that call.
C2_DeductionBeforeHandler ==
    (Metered /\ last_call.kind = "billable" /\ last_call.ran) => last_call.deducted

\* C3: a billable tool call that arrives while the session is active with
\* balance < cost_per_iteration raises the funding interrupt (status
\* exhausted, no deduction) instead of proceeding.
C3_ExhaustedBelowCost ==
    (Metered /\ last_call.kind = "billable"
        /\ last_call.status_at_check = "active"
        /\ last_call.balance_at_check < cost_per_iteration) =>
        /\ last_call.interrupted
        /\ mw_pc = "interrupt" =>
              (state.payment_status = "exhausted" /\ ~last_call.deducted)

\* C4: once the first token is validated, payment_spent_sats +
\* payment_balance_sats equals the sum of the validated amounts of the
\* first token and of the accepted top-up tokens, after every operation.
C4_Conservation ==
    first_validation = "accepted" =>
        state.payment_spent_sats + state.payment_balance_sats = accepted_total

\* C5: payment_balance_sats is never negative.
C5_BalanceNonNegative == state.payment_balance_sats >= 0

\* C8: when the token fails validation at the first billable tool call, the
\* status becomes error (completed once after_agent ran, refunded once the
\* client claimed a refund), no handler of a billable tool runs in that call
\* or later, and nothing is deducted.
C8_NoWorkAfterFailedValidation ==
    first_validation = "failed" =>
        /\ state.payment_status \in {"error", "completed", "refunded"}
        /\ handler_runs = 0
        /\ deductions = 0
        /\ state.payment_spent_sats = 0

\* the amount a refund token carries: the integer after "cashu_refund_"
RefundAmount(tok) ==
    IF StartsWith(tok, s_cashu_refund_)
    THEN ParseInt(SubSeq(tok, Len(s_cashu_refund_) + 1, Len(tok)))
    ELSE [ok |-> FALSE, value |-> 0]

\* the step is a run of after_agent
AfterAgentStep == finalizations' = finalizations + 1

\* C11: when after_agent finalizes a metered session whose balance is b > 0,
\* the record gets status completed, a non-null refund token that encodes
\* exactly b, and payment_refund_claimed False; when b = 0 the run produces
\* no refund token.
C11_RefundForLeftover ==
    [][(AfterAgentStep /\ Metered) =>
          LET b == state.payment_balance_sats IN
          /\ b > 0 =>
                /\ state'.payment_status = "completed"
                /\ Truthy(state'.payment_refund_token)
                /\ RefundAmount(state'.payment_refund_token)
                      = [ok |-> TRUE, value |-> b]
                /\ state'.payment_refund_claimed = FALSE
          /\ b = 0 =>
                /\ state'.payment_status = "completed"
                /\ state'.payment_refund_token = state.payment_refund_token
       ]_vars

\* a session that paid 15, spent 10 and was finalized with the 5 left
C11_Witness ==
    /\ finalizations = 1
    /\ state.payment_token = TokDebug15
    /\ state.payment_spent_sats = 10
    /\ state.payment_status = "completed"
    /\ state.payment_refund_token = s_cashu_refund_ \o <<"5">>
    /\ ~state.payment_refund_claimed

\* the session is finalized and nothing was spent or added since: its status
\* is completed or refunded and its refund token, if any, carries the balance
AlreadyFinalized ==
    /\ finalizations >= 1
    /\ state.payment_status \in {"completed", "refunded"}
    /\ Truthy(state.payment_refund_token) =>
          RefundAmount(state.payment_refund_token)
            = [ok |-> TRUE, value |-> state.payment_balance_sats]

\* C12: running after_agent on a session that is already finalized changes
\* nothing: the refund token keeps its value and no other payment field
\* changes, payment_refund_claimed included once the client set it to True.
C12_RefinalizeIsNoOp ==
    [][(AfterAgentStep /\ AlreadyFinalized) => state' = state]_vars

\* ------------------------------------------------------------------------
\* Properties of the graph runs (under Spec), continued
\* ------------------------------------------------------------------------
\* the step is a run of finalize_node
FinalizeStep == "finalize" \notin executed /\ "finalize" \in executed'

\* C13: in the reader graph, when no work node failed and the wallet does not
\* take the token (the request raised or timed out, the status was not 200,
\* or the answer said success false), redeem_token_to_wallet returns False
\* without raising, finalize_node still ends the run with refund False and
\* the messages untouched, and the operator log holds the full token text
\* under the manual-recovery banner.
C13_FailedRedemptionEscalated ==
    [][(/\ FinalizeStep
        /\ graph = "reader"
        /\ llm_raised = {}
        /\ Truthy(payment_token)
        /\ wallet_answers' # wallet_answers
        /\ wallet_answers'[Len(wallet_answers')]
              \in {"exception", "non200", "success_false"})
       => /\ redeemed' = Append(redeemed, FALSE)
          /\ node' = "END"
          /\ refund' = FALSE
          /\ messages' = messages
          /\ <<"UNREDEEMED TOKEN - MANUAL RECOVERY NEEDED", payment.ecash_token>>
                \in operator_log'
      ]_vars

\* a reader run whose work succeeded and whose redemption request raised
C13_Witness ==
    /\ graph = "reader"
    /\ node = "END"
    /\ llm_raised = {}
    /\ payment.ecash_token = TokReal20
    /\ wallet_answers = <<"exception">>
    /\ redeemed = <<FALSE>>
    /\ refund = FALSE
    /\ LastMessage = AiMsg(0)

\* ------------------------------------------------------------------------
\* Properties of the middleware session (under SpecMw), continued
\* ------------------------------------------------------------------------
\* the step is the resume of the funding interrupt: awrap_tool_call runs on
\* from interrupt() to its return
ResumeStep == mw_pc = "interrupt" /\ mw_pc' = "idle"

\* C14: when the funding interrupt is resumed with a new token that
\* validates, the token's amount is added to payment_balance_sats, the status
\* is active again, and the interrupted tool call is deducted and executed;
\* what was spent before is kept.
C14_TopUpAddedAndCharged ==
    [][(ResumeStep /\ last_resume' = "accepted") =>
          LET v == validate_token_sync(state'.payment_token, DEV_MODE) IN
          /\ v.is_valid
          /\ state'.payment_status = "active"
          /\ state'.payment_balance_sats
                = state.payment_balance_sats + v.amount - cost_per_iteration
          /\ state'.payment_spent_sats
                = state.payment_spent_sats + cost_per_iteration
          /\ deductions' = deductions + 1
          /\ handler_runs' = handler_runs + 1
      ]_vars

\* C15: when the funding interrupt is resumed with a rejection, with no
\* token or with a token that fails validation, the status becomes error and
\* the handler of the interrupted tool call is not invoked.
C15_DeclinedResumeStops ==
    [][(ResumeStep /\ last_resume' = "declined") =>
          /\ state'.payment_status = "error"
          /\ handler_runs' = handler_runs
      ]_vars

\* the step is a call of awrap_tool_call for a billable tool
BillableCallStep == tool_calls' = tool_calls + 1 /\ last_call'.kind = "billable"

\* C16: in a session that has been topped up and is not finalized, whenever
\* a billable tool call arrives with the balance used up (<= 0), the call
\* sets the status to exhausted and raises the funding interrupt again
\* without running the handler, however many top-ups came before.
C16_CycleReentrant ==
    [][(/\ BillableCallStep
        /\ last_resume = "accepted"
        /\ finalizations = 0
        /\ state.payment_balance_sats <= 0)
       => /\ mw_pc' = "interrupt"
          /\ state'.payment_status = "exhausted"
          /\ interrupt_data'.type = "payment_exhausted"
          /\ interrupt_data'.spent_sats = state.payment_spent_sats
          /\ handler_runs' = handler_runs
      ]_vars

\* a session suspended in its funding interrupt after two top-ups
C16_Witness ==
    /\ topups = 2
    /\ last_resume = "accepted"
    /\ finalizations = 0
    /\ mw_pc = "interrupt"
    /\ state.payment_status = "exhausted"

\* C17: a session started without a token is active from its first billable
\* tool call until it is finalized, is never exhausted or suspended, has no
\* tool call blocked or deducted, and gets no refund token from after_agent.
C17_FreeSessionUnmetered ==
    ~Truthy(start_token) =>
        /\ ~Truthy(state.payment_token)
        /\ state.payment_status # "exhausted"
        /\ mw_pc # "interrupt"
        /\ deductions = 0
        /\ state.payment_spent_sats = 0
        /\ ~Truthy(state.payment_refund_token)
        /\ last_call.kind = "billable" =>
              last_call.ran /\ ~last_call.interrupted /\ ~last_call.deducted
        /\ (handler_runs >= 1 /\ finalizations = 0) =>
              state.payment_status = "active"
        /\ finalizations >= 1 => state.payment_status = "completed"

\* a session without token and with balance 0 that ran three billable tools
\* and was finalized
C17_Witness ==
    /\ ~Truthy(start_token)
    /\ state.payment_balance_sats = 0
    /\ handler_runs >= 3
    /\ finalizations = 1
    /\ state.payment_status = "completed"

\* "debug" or a string that starts with "cashu_debug_"
IsDebugToken(token) == token = s_debug \/ StartsWith(token, s_cashu_debug_)

\* C19: with DEV_MODE off the middleware does not accept a debug token as
\* payment and runs no billable tool for the session that presented it.
C19_DebugTokensGated ==
    (~DEV_MODE /\ IsDebugToken(start_token)) =>
        /\ first_validation # "accepted"
        /\ handler_runs = 0

\* ------------------------------------------------------------------------
\* Properties of the validators (under SpecValidate)
\* ------------------------------------------------------------------------
\* non-empty strings that are not Cashu tokens: wrong prefix, payload too
\* short, payload that is not base64
MalformedTokens == {TokMalformed, TokShort, TokUndecodable}

\* C18: every validator answers a malformed token with is_valid False, and
\* validate_token_sync with amount 0 and an error message, whatever DEV_MODE
\* is.
C18_MalformedRejected ==
    v_token \in MalformedTokens =>
        /\ \A i \in DOMAIN v_sync :
              /\ ~v_sync[i].is_valid
              /\ v_sync[i].amount = 0
              /\ v_sync[i].error # "None"
        /\ \A i \in DOMAIN v_format : ~v_format[i]
        /\ \A i \in DOMAIN v_state : ~v_state[i].is_valid

\* the integer written after the last underscore of the debug tokens, 100
\* where there is none
ExpectedDebugAmount(token) ==
    CASE token = TokDebug -> 100
      [] token = TokDebugBare -> 100
      [] token = TokDebug15 -> 15
      [] token = TokDebug10 -> 10
      [] token = TokDebug5 -> 5
      [] token = TokDebugNeg5 -> 0 - 5
      [] token = TokDebugA7 -> 7

\* C20: every call of validate_token_sync on a debug token returns
\* (True, amount, None) with amount the integer after the token's last
\* underscore, or 100 when there is none, whether DEV_MODE is on or off.
C20_DebugTokenDeterministic ==
    IsDebugToken(v_token) =>
        \A i \in DOMAIN v_sync :
            v_sync[i] = [is_valid |-> TRUE,
                         amount |-> ExpectedDebugAmount(v_token),
                         error |-> "None"]

\* validate_token_sync was called twice on "cashu_debug_" with DEV_MODE off
C20_Witness ==
    /\ ~DEV_MODE
    /\ v_token = TokDebugBare
    /\ Len(v_sync) >= 2
    /\ v_sync[1].amount = 100
    /\ v_sync[2] = v_sync[1]

\* the step is a call of one of the validators
ValidatorCallStep ==
    Len(v_sync') + Len(v_format') + Len(v_state')
        > Len(v_sync) + Len(v_format) + Len(v_state)

Issued == {r \in Req : w_req[r].kind \in {"sweep", "send"}
                        /\ w_req[r].response.success}

\* C22: no two requests are answered with send tokens that share a proof,
\* and the tokens issued are together worth no more than the proofs the
\* wallet holds.
C22_SendsSerialized ==
    /\ \A r1, r2 \in Issued :
          r1 # r2 =>
            w_req[r1].response.token \cap w_req[r2].response.token = {}
    /\ proofs_value(UNION {w_req[r].response.token : r \in Issued})
          <= proofs_value(w_held)
    /\ \A r \in Issued :
          w_req[r].kind = "send" =>
            proofs_value(w_req[r].response.token) = w_req[r].amount

\* C29: a successful POST /sweep reports as amount the value of the token
\* it returns, and a sweep that finds balance 0 answers success false
\* without token.
C29_SweepAmountIsTokenValue ==
    \A r \in Req :
        (w_req[r].kind = "sweep" /\ w_req[r].pc = "done") =>
            /\ w_req[r].response.success =>
                  w_req[r].response.amount
                    = proofs_value(w_req[r].response.token)
            /\ w_req[r].balance = 0 =>
                  /\ ~w_req[r].response.success
                  /\ w_req[r].response.token = {}

\* ------------------------------------------------------------------------
\* Properties of the middleware session (under SpecMw), third part
\* ------------------------------------------------------------------------
\* the edges of the payment_status state machine
AllowedStatusEdges ==
    {<<"pending", "active">>, <<"pending", "error">>,
     <<"active", "exhausted">>, <<"active", "completed">>,
     <<"active", "error">>, <<"exhausted", "active">>,
     <<"exhausted", "error">>, <<"completed", "refunded">>,
     <<"error", "refunded">>}

\* C23: payment_status changes only along the edges of the state machine; a
\* first billable call that validates the token and finds no funds takes
\* pending -> active -> exhausted in one call.
C23_StatusEdges ==
    [][state'.payment_status # state.payment_status =>
          \/ <<state.payment_status, state'.payment_status>>
                \in AllowedStatusEdges
          \/ /\ BillableCallStep
             /\ state.payment_status = "pending"
             /\ state'.payment_status = "exhausted"
      ]_vars

\* C24: once the middleware has handled a billable call or finalized the
\* session, the balance of a metered session is at most the sum of the
\* amounts validated for its accepted tokens, and a refund token carries at
\* most that sum minus what was spent.
C24_BalanceBackedByValidation ==
    (Metered /\ (last_call.kind = "billable" \/ finalizations >= 1)) =>
        /\ state.payment_balance_sats <= accepted_total
        /\ Truthy(state.payment_refund_token) =>
              RefundAmount(state.payment_refund_token).value
                <= accepted_total - state.payment_spent_sats

\* C25: in a session whose token validates to exactly cost_per_iteration,
\* the first billable call is deducted and executed and leaves balance 0,
\* and the next billable call sets the status to exhausted and raises the
\* funding interrupt without running its tool.
C25_ExactlyOneCall ==
    [][BillableCallStep =>
          /\ (/\ state.payment_status = "pending"
              /\ validate_token_sync(state.payment_token, DEV_MODE).is_valid
              /\ validate_token_sync(state.payment_token, DEV_MODE).amount
                    = cost_per_iteration)
             => /\ handler_runs = 0 /\ handler_runs' = 1
                /\ deductions' = 1
                /\ mw_pc' = "idle"
                /\ state'.payment_status = "active"
                /\ state'.payment_balance_sats = 0
                /\ state'.payment_spent_sats = cost_per_iteration
          /\ (/\ first_validation = "accepted"
              /\ accepted_total = cost_per_iteration
              /\ last_resume = "none"
              /\ finalizations = 0)
             => /\ handler_runs = 1 /\ handler_runs' = 1
                /\ deductions' = 1
                /\ mw_pc' = "interrupt"
                /\ state'.payment_status = "exhausted"
                /\ state'.payment_balance_sats = 0
      ]_vars

\* a session that paid a token of the mint worth 10, ran one billable tool
\* and is suspended in the funding interrupt of the second
C25_Witness ==
    /\ state.payment_token = TokReal10
    /\ accepted_total = cost_per_iteration
    /\ handler_runs = 1
    /\ deductions = 1
    /\ state.payment_spent_sats = cost_per_iteration
    /\ mw_pc = "interrupt"
    /\ state.payment_status = "exhausted"

\* keys of the interrupt request other than those for the type, the
\* message, the amount spent and the action
SuggestedTopUpKeys ==
    (DOMAIN interrupt_data \cup DOMAIN interrupt_data.action_args)
      \ {"type", "spent_sats", "message", "action_name", "action_args",
          "allowed_decisions", "reason", "spent_so_far"}

\* C26: the request of a suspended session carries payment_spent_sats, a
\* suggested top-up amount, and an action whose allowed decisions are
\* approve, edit and reject.
C26_FundingRequestContents ==
    mw_pc = "interrupt" =>
        /\ interrupt_data.spent_sats = state.payment_spent_sats
        /\ interrupt_data.action_args.spent_so_far = state.payment_spent_sats
        /\ interrupt_data.action_name = "request_additional_funding"
        /\ interrupt_data.allowed_decisions = {"approve", "edit", "reject"}
        /\ SuggestedTopUpKeys # {}

\* C27: payment_token holds the token the session started with.
C27_TokenNeverOverwritten == state.payment_token = start_token

\* ------------------------------------------------------------------------
\* Properties of the graph runs (under Spec), third part
\* ------------------------------------------------------------------------
\* C28: when no work node failed and the wallet answers the redemption in
\* finalize_node with "already spent", the run ends at END with refund False
\* and the assistant's response as its last message, unchanged: the failed
\* redemption is not turned into an error for the user.
C28_AlreadySpentNotPropagated ==
    [][(/\ FinalizeStep
        /\ llm_raised = {}
        /\ Truthy(payment_token)
        /\ wallet_answers' = Append(wallet_answers, "already_spent"))
       => /\ redeemed' = Append(redeemed, FALSE)
          /\ node' = "END"
          /\ refund' = FALSE
          /\ payment_validated' = TRUE
          /\ messages' = messages
          /\ Len(messages) > 0
          /\ LastMessage.type = "ai"
          /\ LastMessage.content = "response"
      ]_vars

\* a reader run that answered the user and whose token the wallet reported
\* already spent
C28_Witness ==
    /\ graph = "reader"
    /\ node = "END"
    /\ llm_raised = {}
    /\ payment.ecash_token = TokReal10
    /\ wallet_answers = <<"already_spent">>
    /\ redeemed = <<FALSE>>
    /\ refund = FALSE
    /\ LastMessage = AiMsg(0)

\* ------------------------------------------------------------------------
\* Termination of the web agent graph (under SpecWebLive)
\* ------------------------------------------------------------------------
\* C30: a web run that starts with research_iteration 0 and tool_call_count 0
\* executes the tools node at most MAX_RESEARCH_ITERATIONS - 1 times, and
\* once it has passed payment validation it eventually executes finalize and
\* stands at END, whether researcher_node raises or keeps requesting tool
\* calls.
C30_WebRunTerminates ==
    /\ [](graph = "web" => tools_runs <= MAX_RESEARCH_ITERATIONS - 1)
    /\ (graph = "web" /\ "validate_payment" \in executed /\ payment_validated)
          ~> (node = "END" /\ "finalize" \in executed)

\* a web run whose researcher requested tool calls every time, at END after
\* finalize
C30_Witness ==
    /\ graph = "web"
    /\ node = "END"
    /\ "finalize" \in executed
    /\ payment_validated
    /\ research_iteration = MAX_RESEARCH_ITERATIONS
    /\ tools_runs = MAX_RESEARCH_ITERATIONS - 1
    /\ \A i \in 1..Len(messages) :
          messages[i].type = "ai" /\ i < Len(messages) => messages[i].tool_calls > 0

====
